---------------------------- MODULE Spec2Model ----------------------------
(***************************************************************************)
(* Model of mpv-subtitleminer's IPC layer: src/src/mpv_stream.rs           *)
(* (MpvStream: connect / read_line / write_all over a Unix socket or a     *)
(* Windows named pipe) and src/src/main.rs (the hosting process).          *)
(* The session layer that main.rs calls (event_loop::run_server) is not    *)
(* part of the visible sources; it is modelled from the specification.     *)
(***************************************************************************)
EXTENDS Integers, Sequences, FiniteSets, TLC

VARIABLES
    \* --- MpvStream::connect ---------------------------------------------
    platform,     \* "unix" | "windows": the cfg the binary was built with
    connIn,       \* the last connect call's inputs, or NoCall
    connOut,      \* the last connect call's result, or NoCall
    \* --- MpvStream::read_line -------------------------------------------
    rdInbound,    \* bytes the peer has sent that read_line has not returned
    rdPeer,       \* "open" | "eof" | "reset"
    rdBuf,        \* the caller's String
    rdLast,       \* what the last read_line call did, or NoCall
    \* --- MpvStream::write_all -------------------------------------------
    wrReq,        \* the buffer handed to write_all
    wrWrites,     \* how many writes of the call the OS has accepted
    wrPeerGot,    \* the bytes the peer side of the transport has received
    wrRes,        \* "idle" | "pending" | "ok" | an io::ErrorKind
    \* --- main and the session it hosts ----------------------------------
    cliPid,       \* Args::expected_mpv_pid: an Option<u32>
    ownerPid,     \* the process that owns the endpoint
    mainPc,       \* "start" | "serving" | "exited"
    exitCode,     \* the process's exit status; Running while it has not exited
    rsExpected,   \* the expected pid run_server was called with
    sess,         \* "none" | "connecting" | "unverified" | "established" |
                  \* "closed" | "connect_failed" | "identity_mismatch"
    transport,    \* "none" | "open" | "released"
    inbound,      \* bytes the peer has sent that the session has not read
    peer,         \* "open" | "eof" | "reset"
    anyRead,      \* a byte has been read from the transport
    anyWritten,   \* a byte has been written to the transport
    nextId,       \* the Correlator's id counter
    pending,      \* the pending-request table (ids)
    outcome,      \* per request id: what its caller has got
    resolutions,  \* per request id: how often its completion slot was set
    logged,       \* the anomalies the session has logged
    drained,      \* how many requests the teardown failed
    subs,         \* registered subscription handles
    nextHandle,   \* the Event Router's handle counter
    subAt,        \* per handle: how many events had arrived at subscribe
    queue,        \* per handle: its bounded queue (arrival numbers)
    delivered,    \* per handle: what the subscriber has taken, in order
    drops,        \* per handle: recorded drops
    arrived       \* the events read from the transport, in order

connVars == <<platform, connIn, connOut>>
readVars == <<rdInbound, rdPeer, rdBuf, rdLast>>
writeVars == <<wrReq, wrWrites, wrPeerGot, wrRes>>
hostVars == <<cliPid, ownerPid, mainPc, exitCode, rsExpected, sess, transport>>
wireVars == <<inbound, peer, anyRead, anyWritten>>
corrVars == <<nextId, pending, outcome, resolutions>>
routerVars == <<subs, nextHandle, subAt, queue, delivered, drops, arrived>>
sessVars == <<hostVars, wireVars, corrVars, routerVars, logged, drained>>
vars == <<connVars, readVars, writeVars, sessVars>>

NoCall == [called |-> FALSE]

(***************************************************************************)
(* Bounds                                                                  *)
(***************************************************************************)
MaxPathLen == 3

(***************************************************************************)
(* Strings are sequences of one-character strings.                         *)
(***************************************************************************)
RECURSIVE SeqsUpTo(_, _)
SeqsUpTo(S, n) ==
    IF n = 0 THEN {<<>>}
    ELSE LET shorter == SeqsUpTo(S, n - 1)
         IN  shorter \cup {Append(s, c) : s \in {t \in shorter : Len(t) = n - 1}, c \in S}

StartsWith(s, p) ==
    /\ Len(s) >= Len(p)
    /\ SubSeq(s, 1, Len(p)) = p

Contains(s, sub) ==
    \E i \in 0 .. (Len(s) - Len(sub)) : SubSeq(s, i + 1, i + Len(sub)) = sub

IsSep(c) == c \in {"/", "\\"}


(***************************************************************************)
(* MpvStream::connect / connect_inner  (mpv_stream.rs 16-23, 33-63)        *)
(***************************************************************************)
ErrorKinds == {"NotFound", "PermissionDenied", "ConnectionRefused"}
OsOutcomes == {"ok"} \cup ErrorKinds

PathChars == {"/", "\\", "a", "."}

\* r"\\.\pipe\"
PipePrefix == <<"\\", "\\", ".", "\\", "p", "i", "p", "e", "\\">>

\* "mpv-socket", the unwrap_or default of the pipe name
DefaultPipeName == <<"m", "p", "v", "-", "s", "o", "c", "k", "e", "t">>

\* The paths a caller may pass: relative and rooted paths without a
\* Windows prefix (no drive letter, no leading double separator), and the
\* same strings behind the named-pipe namespace prefix.
PathInputs ==
    LET plain == {p \in SeqsUpTo(PathChars, MaxPathLen) :
                     ~(Len(p) >= 2 /\ IsSep(p[1]) /\ IsSep(p[2]))}
    IN  plain \cup {PipePrefix \o p : p \in SeqsUpTo(PathChars, MaxPathLen)}

\* The pieces of a path between separators.
RECURSIVE Split(_)
Split(s) ==
    IF s = <<>> THEN << <<>> >>
    ELSE LET rest == Split(Tail(s))
         IN  IF IsSep(Head(s))
             THEN << <<>> >> \o rest
             ELSE << <<Head(s)>> \o Head(rest) >> \o Tail(rest)

\* std::path::Path::file_name: the last component when it is a normal one.
\* Empty pieces and "." pieces are no components; a final ".." or a path of
\* no normal component has no file name.
FileName(path) ==
    LET parts == SelectSeq(Split(path), LAMBDA p : p # <<>> /\ p # <<".">>)
    IN  IF parts = <<>> \/ parts[Len(parts)] = <<".", ".">>
        THEN [some |-> FALSE]
        ELSE [some |-> TRUE, val |-> parts[Len(parts)]]

\* A build that always rebuilds the pipe path from the file name.
PipePathAlwaysRebuilt(path) ==
    LET fname == FileName(path)
        name == IF fname.some THEN fname.val ELSE DefaultPipeName
    IN  PipePrefix \o name

\* connect_inner (windows), lines 45-53
PipePath(path) ==
    IF StartsWith(path, PipePrefix)
    THEN path
    ELSE LET fname == FileName(path)
             name == IF fname.some THEN fname.val ELSE DefaultPipeName
         IN  PipePrefix \o name

\* format!("Failed to connect to mpv {what} at '{}': {}", shown, e)
ConnectMessage(what, shown, e) ==
    <<"Failed to connect to mpv ", what, " at '">> \o shown \o <<"': ", "os error: ", e>>

\* connect_inner (unix), lines 34-41.  `os` is what UnixStream::connect did.
ConnectInnerUnix(path, os) ==
    IF os = "ok"
    THEN [ok |-> TRUE, attempted |-> path]
    ELSE [ok |-> FALSE, attempted |-> path, kind |-> os,
          message |-> ConnectMessage("socket", path, os)]

\* A build whose error text names the caller's path, not the pipe opened.
ConnectInnerWindowsCallerPath(path, os) ==
    IF os = "ok"
    THEN [ok |-> TRUE, attempted |-> PipePath(path)]
    ELSE [ok |-> FALSE, attempted |-> PipePath(path), kind |-> os,
          message |-> ConnectMessage("pipe", path, os)]

\* connect_inner (windows), lines 44-63.  `os` is what ClientOptions::open did.
ConnectInnerWindows(path, os) ==
    LET pipe_path == PipePath(path)
    IN  IF os = "ok"
        THEN [ok |-> TRUE, attempted |-> pipe_path]
        ELSE [ok |-> FALSE, attempted |-> pipe_path, kind |-> os,
              message |-> ConnectMessage("pipe", pipe_path, os)]

ConnectInner(plat, path, os) ==
    IF plat = "unix" THEN ConnectInnerUnix(path, os) ELSE ConnectInnerWindows(path, os)

\* MpvStream::connect, lines 16-23: `?` returns the error as it is; otherwise
\* the stream is split and wrapped.
MpvStreamConnect(plat, path, os) ==
    LET inner == ConnectInner(plat, path, os)
    IN  IF inner.ok
        THEN [called |-> TRUE, ok |-> TRUE, attempted |-> inner.attempted,
              stream |-> "MpvStream"]
        ELSE [called |-> TRUE, ok |-> FALSE, attempted |-> inner.attempted,
              stream |-> "none", kind |-> inner.kind, message |-> inner.message]

\* One call of MpvStream::connect(path) per run of the program.
CallConnect ==
    /\ ~connIn.called
    /\ \E path \in PathInputs, os \in OsOutcomes :
          /\ connIn' = [called |-> TRUE, path |-> path, os |-> os]
          /\ connOut' = MpvStreamConnect(platform, path, os)
    /\ UNCHANGED <<platform, readVars, writeVars, sessVars>>

(***************************************************************************)
(* MpvStream::read_line  (mpv_stream.rs 25-27)                             *)
(* = tokio's AsyncBufReadExt::read_line on the BufReader of the read half. *)
(***************************************************************************)
MaxInbound == 3
MaxKeep == 1

NL == "\n"
\* "X" stands for a byte that is not valid UTF-8.
Bytes == {"a", NL, "X"}

ValidUtf8(s) == \A i \in 1 .. Len(s) : s[i] # "X"

EndsWithNL(s) == Len(s) > 0 /\ s[Len(s)] = NL

CountNL(s) == Cardinality({i \in 1 .. Len(s) : s[i] = NL})

\* position of the first newline, 0 when there is none
FirstNL(s) ==
    IF \E i \in 1 .. Len(s) : s[i] = NL
    THEN CHOOSE i \in 1 .. Len(s) : s[i] = NL /\ \A j \in 1 .. (i - 1) : s[j] # NL
    ELSE 0

LastNL(s) ==
    IF \E i \in 1 .. Len(s) : s[i] = NL
    THEN CHOOSE i \in 1 .. Len(s) : s[i] = NL /\ \A j \in (i + 1) .. Len(s) : s[j] # NL
    ELSE 0

\* What one read_line call does once `taken` bytes have been read from the
\* stream and the stream gave `io` ("ok" or an error kind): the bytes are
\* appended to buf when they are valid UTF-8, and buf is left as it was when
\* they are not.
FinishStringRead(buf, taken, rest, io, ended) ==
    IF ValidUtf8(taken)
    THEN [ready |-> TRUE, ok |-> io = "ok", n |-> IF io = "ok" THEN Len(taken) ELSE 0,
          kind |-> io, buf |-> buf \o taken, rest |-> rest, ended |-> ended]
    ELSE [ready |-> TRUE, ok |-> FALSE, n |-> 0,
          kind |-> IF io = "ok" THEN "InvalidData" ELSE io,
          buf |-> buf, rest |-> rest, ended |-> ended]

Pending == [ready |-> FALSE]

\* A read that hands back whatever has arrived, without waiting for the
\* newline.
ReadLineNoWait(buf, avail, stream) ==
    LET nl == FirstNL(avail)
    IN  IF nl > 0
        THEN FinishStringRead(buf, SubSeq(avail, 1, nl),
                              SubSeq(avail, nl + 1, Len(avail)), "ok", "no")
        ELSE IF stream = "eof"
        THEN FinishStringRead(buf, avail, <<>>, "ok", "eof")
        ELSE IF stream = "reset"
        THEN FinishStringRead(buf, avail, <<>>, "ConnectionReset", "reset")
        ELSE IF avail # <<>>
        THEN FinishStringRead(buf, avail, <<>>, "ok", "no")
        ELSE Pending

\* A read that takes every complete line that has arrived.
ReadLineGreedy(buf, avail, stream) ==
    LET nl == LastNL(avail)
    IN  IF nl > 0
        THEN FinishStringRead(buf, SubSeq(avail, 1, nl),
                              SubSeq(avail, nl + 1, Len(avail)), "ok", "no")
        ELSE IF stream = "eof"
        THEN FinishStringRead(buf, avail, <<>>, "ok", "eof")
        ELSE IF stream = "reset"
        THEN FinishStringRead(buf, avail, <<>>, "ConnectionReset", "reset")
        ELSE Pending

\* read_line(buf): reads up to and including the first newline, or to the
\* end of the stream; the future is pending while neither has arrived.
\* Returns Ok(number of bytes read), which is 0 at end-of-stream.
ReadLine(buf, avail, stream) ==
    LET nl == FirstNL(avail)
    IN  IF nl > 0
        THEN FinishStringRead(buf, SubSeq(avail, 1, nl),
                              SubSeq(avail, nl + 1, Len(avail)), "ok", "no")
        ELSE IF stream = "eof"
        THEN FinishStringRead(buf, avail, <<>>, "ok", "eof")
        ELSE IF stream = "reset"
        THEN FinishStringRead(buf, avail, <<>>, "ConnectionReset", "reset")
        ELSE Pending

\* The peer writes one byte.
RdPeerSend ==
    /\ rdPeer = "open"
    /\ Len(rdInbound) < MaxInbound
    /\ \E b \in Bytes : rdInbound' = Append(rdInbound, b)
    /\ UNCHANGED <<rdPeer, rdBuf, rdLast, connVars, writeVars, sessVars>>

\* The peer closes its end (end-of-stream after what it has sent).
RdPeerClose ==
    /\ rdPeer = "open"
    /\ rdPeer' = "eof"
    /\ UNCHANGED <<rdInbound, rdBuf, rdLast, connVars, writeVars, sessVars>>

\* The transport fails (an I/O error on the next read that runs dry).
RdPeerReset ==
    /\ rdPeer = "open"
    /\ rdPeer' = "reset"
    /\ UNCHANGED <<rdInbound, rdBuf, rdLast, connVars, writeVars, sessVars>>

\* The caller awaits stream.read_line(&mut buf), with a fresh String or with
\* the one it used before.
CallReadLine ==
    \E fresh \in BOOLEAN :
        LET buf == IF fresh THEN <<>> ELSE rdBuf
            r == ReadLine(buf, rdInbound, rdPeer)
        IN  /\ fresh \/ Len(rdBuf) <= MaxKeep
            /\ r.ready
            /\ rdBuf' = r.buf
            /\ rdInbound' = r.rest
            /\ rdLast' = [called |-> TRUE, ok |-> r.ok, n |-> r.n, kind |-> r.kind,
                          before |-> Len(buf), ended |-> r.ended]
            /\ UNCHANGED <<rdPeer, connVars, writeVars, sessVars>>

\* the text the last read_line call appended to the caller's String
Appended == SubSeq(rdBuf, rdLast.before + 1, Len(rdBuf))

(***************************************************************************)
(* MpvStream::write_all  (mpv_stream.rs 29-31)                             *)
(* = tokio's AsyncWriteExt::write_all on the write half: poll_write is     *)
(* called on what is left of the buffer until nothing is left.             *)
(***************************************************************************)
MaxFrame == 3

FrameBytes == {"a", NL}

WriteErrors == {"BrokenPipe", "WriteZero"}

\* A write that reports success after the first write the OS accepts.
WriteOnce(req, done, n) ==
    [done |-> done + n, res |-> "ok"]

\* The loop of write_all after poll_write returned Ok(n) with `done` bytes
\* written before: n = 0 is Err(WriteZero); otherwise the buffer advances by
\* n and the loop ends with Ok(()) when it is empty.
WriteAllAfter(req, done, n) ==
    IF n = 0
    THEN [done |-> done, res |-> "WriteZero"]
    ELSE IF done + n = Len(req)
    THEN [done |-> done + n, res |-> "ok"]
    ELSE [done |-> done + n, res |-> "pending"]

\* The caller awaits stream.write_all(buf); an empty buffer is Ok at once.
CallWriteAll ==
    /\ wrRes # "pending"
    /\ \E buf \in SeqsUpTo(FrameBytes, MaxFrame) :
          /\ wrReq' = buf
          /\ wrRes' = IF buf = <<>> THEN "ok" ELSE "pending"
    /\ wrWrites' = 0
    /\ wrPeerGot' = <<>>
    /\ UNCHANGED <<connVars, readVars, sessVars>>

\* poll_write returns Ok(n): the OS took the first n bytes of what is left
\* (n = 0: it took nothing).
WrOsAccept ==
    /\ wrRes = "pending"
    /\ \E n \in 0 .. (Len(wrReq) - Len(wrPeerGot)) :
          LET done == Len(wrPeerGot)
              r == WriteAllAfter(wrReq, done, n)
          IN  /\ wrPeerGot' = wrPeerGot \o SubSeq(wrReq, done + 1, done + n)
              /\ wrRes' = r.res
              /\ wrWrites' = IF n > 0 THEN wrWrites + 1 ELSE wrWrites
    /\ UNCHANGED <<wrReq, connVars, readVars, sessVars>>

\* poll_write returns Err(e): `?` ends write_all with that error.
WrOsError ==
    /\ wrRes = "pending"
    /\ wrRes' = "BrokenPipe"
    /\ UNCHANGED <<wrReq, wrWrites, wrPeerGot, connVars, readVars, sessVars>>

(***************************************************************************)
(* The hosting process: main  (main.rs 29-42)                              *)
(***************************************************************************)
Running == 0 - 1

None == [some |-> FALSE, val |-> 0]
Some(v) == [some |-> TRUE, val |-> v]

Pids == {1, 2}

\* Args::socket_path as given on the command line
SocketPath == <<"/", "a">>

\* A main that calls run_server without the expected pid.
RunServerPidArgDropped(args_expected_mpv_pid) == None

\* main.rs 38: run_server(&args.socket_path, args.port, args.expected_mpv_pid)
RunServerPidArg(args_expected_mpv_pid) == args_expected_mpv_pid

\* A main that exits with status 1 whatever run_server returned.
MainExitAlwaysFails(result_is_err) == 1

\* main.rs 38-42: `if let Err(e) = run_server(..).await` prints the error and
\* calls std::process::exit(1); otherwise main returns and the status is 0.
MainExitStatus(result_is_err) ==
    IF result_is_err THEN 1 ELSE 0

(***************************************************************************)
(* The session layer behind run_server: Identity Verifier, Message Codec,  *)
(* Correlator and Event Router, as the specification describes them.       *)
(***************************************************************************)
MaxReq == 2
MaxWire == 1
MaxSubs == 2
MaxEvents == 3
QueueCap == 2

Ids == 0 .. (MaxReq - 1)
Handles == 0 .. (MaxSubs - 1)
EventNames == {"p", "q"}
Final == {"success", "protocol_error", "timeout", "closed"}

\* --- Message Codec ------------------------------------------------------
Digit(id) == ToString(id)
IsDigit(c) == \E i \in 0 .. 9 : ToString(i) = c
DigitVal(c) == CHOOSE i \in 0 .. 9 : ToString(i) = c

\* encode(command_name, arguments, request_id): one line with the command,
\* its argument and the id; an argument with a newline is rejected.
Encode(arg, id) ==
    IF CountNL(arg) > 0
    THEN [ok |-> FALSE, bytes |-> <<>>]
    ELSE [ok |-> TRUE, bytes |-> <<"c", Digit(id)>> \o arg \o <<NL>>]

TrimNL(line) ==
    IF EndsWithNL(line) THEN SubSeq(line, 1, Len(line) - 1) ELSE line

\* decode(line): a Response carries a request id ("r": success payload,
\* "x": error), an Event carries a name; anything else is a DecodeError.
Decode(line) ==
    IF Len(line) = 2 /\ line[1] \in {"r", "x"} /\ IsDigit(line[2])
    THEN [t |-> "response", id |-> DigitVal(line[2]), err |-> line[1] = "x", name |-> ""]
    ELSE IF Len(line) = 2 /\ line[1] = "e" /\ line[2] \in EventNames
    THEN [t |-> "event", id |-> 0, err |-> FALSE, name |-> line[2]]
    ELSE [t |-> "decode_error", id |-> 0, err |-> FALSE, name |-> ""]

\* what the controlled process may put on the wire, without the newline
ResponseFrames == {<<k, Digit(id)>> : k \in {"r", "x"}, id \in Ids}
EventFrames == {<<"e", n>> : n \in EventNames}

EventsOnWire == Cardinality({i \in 1 .. Len(inbound) : inbound[i] = "e"})

\* --- Identity Verifier --------------------------------------------------
\* verify(endpoint, expected_pid): a no-op without an expected pid;
\* otherwise the owning process must be the expected one.
Verify(expected, observed) ==
    IF expected.some /\ expected.val # observed
    THEN "IdentityMismatch"
    ELSE "Ok"

\* --- Correlator ---------------------------------------------------------
\* A correlator that resolves the caller of any response it reads, pending
\* or not.
OnResponseUnchecked(msg, pend, out, res) ==
    [pending |-> pend \ {msg.id},
     outcome |-> [out EXCEPT ![msg.id] = IF msg.err THEN "protocol_error" ELSE "success"],
     resolutions |-> [res EXCEPT ![msg.id] = @ + 1],
     matched |-> TRUE]

\* on_response: a Response whose id is pending resolves that request and
\* removes it from the table; any other Response is logged and dropped.
OnResponse(msg, pend, out, res) ==
    IF msg.id \in pend
    THEN [pending |-> pend \ {msg.id},
          outcome |-> [out EXCEPT ![msg.id] = IF msg.err THEN "protocol_error" ELSE "success"],
          resolutions |-> [res EXCEPT ![msg.id] = @ + 1],
          matched |-> TRUE]
    ELSE [pending |-> pend, outcome |-> out, resolutions |-> res, matched |-> FALSE]

\* A teardown that fails only the oldest pending request.
OnClosedOldestOnly(pend, out, res) ==
    LET first == IF pend = {} THEN {} ELSE {CHOOSE i \in pend : \A j \in pend : i <= j}
    IN  [pending |-> pend \ first,
         outcome |-> [i \in Ids |-> IF i \in first THEN "closed" ELSE out[i]],
         resolutions |-> [i \in Ids |-> IF i \in first THEN res[i] + 1 ELSE res[i]]]

\* on_closed: every pending request resolves with ConnectionClosed and the
\* table is left empty.
OnClosed(pend, out, res) ==
    [pending |-> {},
     outcome |-> [i \in Ids |-> IF i \in pend THEN "closed" ELSE out[i]],
     resolutions |-> [i \in Ids |-> IF i \in pend THEN res[i] + 1 ELSE res[i]]]

\* --- Event Router -------------------------------------------------------
\* A router that keeps the queued events and drops the arriving one.
EnqueueDropNewest(q, n) ==
    IF Len(q) >= QueueCap
    THEN [queue |-> q, dropped |-> 1]
    ELSE [queue |-> Append(q, n), dropped |-> 0]

\* One subscriber's bounded queue takes event n (its arrival number and its
\* name): a full queue drops its oldest event and the drop is recorded.
Enqueue(q, n) ==
    IF Len(q) >= QueueCap
    THEN [queue |-> Append(Tail(q), n), dropped |-> 1]
    ELSE [queue |-> Append(q, n), dropped |-> 0]

(***************************************************************************)
(* Actions of the hosting process and its session                          *)
(***************************************************************************)
\* main.rs 33: Args::parse() ends the process itself when the command line
\* does not parse (usage error, status 2) or asks for --help or --version
\* (status 0).
ArgsParseExit(parse) == IF parse = "usage_error" THEN 2 ELSE 0

\* main.rs 33-38: the arguments are parsed and run_server is called.
MainStart ==
    /\ mainPc = "start"
    /\ \E parse \in {"ok", "usage_error", "help"} :
          IF parse = "ok"
          THEN /\ mainPc' = "serving"
               /\ rsExpected' = RunServerPidArg(cliPid)
               /\ sess' = "connecting"
               /\ UNCHANGED exitCode
          ELSE /\ mainPc' = "exited"
               /\ exitCode' = ArgsParseExit(parse)
               /\ UNCHANGED <<rsExpected, sess>>
    /\ UNCHANGED <<cliPid, ownerPid, transport, wireVars, corrVars,
                   routerVars, logged, drained, connVars, readVars, writeVars>>

\* run_server connects the transport with MpvStream::connect.
RunServerConnect ==
    /\ mainPc = "serving"
    /\ sess = "connecting"
    /\ \E os \in OsOutcomes :
          LET r == MpvStreamConnect(platform, SocketPath, os)
          IN  /\ sess' = IF r.ok THEN "unverified" ELSE "connect_failed"
              /\ transport' = IF r.ok THEN "open" ELSE "none"
    /\ UNCHANGED <<cliPid, ownerPid, mainPc, exitCode, rsExpected, wireVars,
                   corrVars, routerVars, logged, drained, connVars, readVars, writeVars>>

\* The Identity Verifier runs on the connected transport; on a mismatch the
\* transport is closed and no Session is created.
RunServerVerify ==
    /\ mainPc = "serving"
    /\ sess = "unverified"
    /\ IF Verify(rsExpected, ownerPid) = "Ok"
       THEN sess' = "established" /\ UNCHANGED <<transport, inbound>>
       ELSE sess' = "identity_mismatch" /\ transport' = "released" /\ inbound' = <<>>
    /\ UNCHANGED <<cliPid, ownerPid, mainPc, exitCode, rsExpected, peer,
                   anyRead, anyWritten, corrVars, routerVars, logged, drained,
                   connVars, readVars, writeVars>>

\* main.rs 38-42: run_server has returned (an error when the Session could
\* not be established, Ok once the Session has closed).
MainExit ==
    /\ mainPc = "serving"
    /\ sess \in {"connect_failed", "identity_mismatch", "closed"}
    /\ exitCode' = MainExitStatus(sess # "closed")
    /\ mainPc' = "exited"
    /\ UNCHANGED <<cliPid, ownerPid, rsExpected, sess, transport, wireVars,
                   corrVars, routerVars, logged, drained, connVars, readVars, writeVars>>

\* The frames the process at the other end can write next: a response to a
\* request id that has been issued, an event, or a line that is no message.
CanSend(f) ==
    /\ f \in ResponseFrames => DigitVal(f[2]) < nextId
    /\ f \in EventFrames => Len(arrived) + EventsOnWire < MaxEvents

\* The process at the other end writes one frame out of `frames`.
PeerSends(frames) ==
    /\ mainPc = "serving"
    /\ transport = "open"
    /\ peer = "open"
    /\ CountNL(inbound) < MaxWire
    /\ \E f \in frames :
          /\ CanSend(f)
          /\ inbound' = inbound \o f \o <<NL>>
    /\ UNCHANGED <<hostVars, peer, anyRead, anyWritten, corrVars, routerVars,
                   logged, drained, connVars, readVars, writeVars>>

\* The process at the other end goes away, at a frame boundary or in the
\* middle of a frame out of `frames`.
PeerCloses(frames) ==
    /\ mainPc = "serving"
    /\ transport = "open"
    /\ peer = "open"
    /\ \E part \in {<<>>} \cup frames :
          /\ CanSend(part)
          /\ inbound' = inbound \o part
    /\ peer' = "eof"
    /\ UNCHANGED <<hostVars, anyRead, anyWritten, corrVars, routerVars,
                   logged, drained, connVars, readVars, writeVars>>

\* Request/response traffic: responses and lines that do not decode.
PeerReply == PeerSends(ResponseFrames \cup {<<"?">>})
PeerCloseReply == PeerCloses(ResponseFrames \cup {<<"?">>})

\* The unsolicited event stream.
PeerEmit == PeerSends(EventFrames)
PeerCloseEmit == PeerCloses(EventFrames)

\* The transport breaks.
PeerReset ==
    /\ mainPc = "serving"
    /\ transport = "open"
    /\ peer = "open"
    /\ peer' = "reset"
    /\ UNCHANGED <<hostVars, inbound, anyRead, anyWritten, corrVars, routerVars,
                   logged, drained, connVars, readVars, writeVars>>

\* Session teardown: drain the pending table, then release the transport
\* (what it had buffered goes with it).
Teardown(pend) ==
    LET c == OnClosed(pend, outcome, resolutions)
    IN  /\ pending' = c.pending
        /\ outcome' = c.outcome
        /\ resolutions' = c.resolutions
        /\ sess' = "closed"
        /\ transport' = "released"
        /\ inbound' = <<>>
        /\ drained' = Cardinality(pend)

\* route(msg): the event gets the next arrival number and goes to the queue
\* of every registered subscriber.
Route(name) ==
    LET n == [n |-> Len(arrived) + 1, name |-> name]
    IN  /\ arrived' = Append(arrived, name)
        /\ queue' = [h \in Handles |->
                        IF h \in subs THEN Enqueue(queue[h], n).queue ELSE queue[h]]
        /\ drops' = [h \in Handles |->
                        IF h \in subs THEN drops[h] + Enqueue(queue[h], n).dropped
                        ELSE drops[h]]
        /\ UNCHANGED <<subs, nextHandle, subAt, delivered>>

\* One turn of the read task: read_line, decode, then on_response or route;
\* end-of-stream (Ok(0)) and a read error tear the Session down.
ReadLoop ==
    /\ mainPc = "serving"
    /\ sess = "established"
    /\ LET r == ReadLine(<<>>, inbound, peer)
           msg == Decode(TrimNL(r.buf))
       IN  /\ r.ready
           /\ anyRead' = (anyRead \/ Len(r.rest) < Len(inbound))
           /\ IF ~r.ok \/ r.n = 0
              THEN /\ Teardown(pending)
                   /\ UNCHANGED <<routerVars, logged>>
              ELSE IF msg.t = "response"
              THEN LET c == OnResponse(msg, pending, outcome, resolutions)
                   IN  /\ pending' = c.pending
                       /\ outcome' = c.outcome
                       /\ resolutions' = c.resolutions
                       /\ logged' = IF c.matched THEN logged
                                    ELSE logged \cup {"unmatched_response"}
                       /\ inbound' = r.rest
                       /\ UNCHANGED <<sess, transport, routerVars, drained>>
              ELSE IF msg.t = "event"
              THEN /\ Route(msg.name)
                   /\ inbound' = r.rest
                   /\ UNCHANGED <<sess, transport, pending, outcome, resolutions,
                                  logged, drained>>
              ELSE /\ logged' = logged \cup {"decode_error"}
                   /\ inbound' = r.rest
                   /\ UNCHANGED <<sess, transport, pending, outcome, resolutions,
                                  routerVars, drained>>
    /\ UNCHANGED <<cliPid, ownerPid, mainPc, exitCode, rsExpected, peer,
                   anyWritten, nextId, connVars, readVars, writeVars>>

\* submit(command, arguments, timeout): the command is encoded (a bad
\* argument is rejected with no side effect), the next id is allocated, the
\* PendingRequest registered and the frame written with write_all.  A write
\* that fails is a lost transport; a closed Session fails the call at once.
Submit ==
    /\ mainPc = "serving"
    /\ sess \in {"established", "closed"}
    /\ nextId < MaxReq
    /\ \E arg \in {<<"v">>, <<NL>>}, os \in {"ok", "BrokenPipe"} :
          LET e == Encode(arg, nextId)
              id == nextId
          IN  IF ~e.ok
              THEN /\ os = "ok"
                   /\ UNCHANGED <<sess, transport, inbound, anyWritten, corrVars,
                                  logged, drained>>
              ELSE IF sess = "closed"
              THEN /\ os = "ok"
                   /\ nextId' = nextId + 1
                   /\ outcome' = [outcome EXCEPT ![id] = "closed"]
                   /\ resolutions' = [resolutions EXCEPT ![id] = @ + 1]
                   /\ UNCHANGED <<sess, transport, inbound, anyWritten, pending,
                                  logged, drained>>
              ELSE /\ peer = "open" => os = "ok"
                   /\ peer = "reset" => os = "BrokenPipe"
                   /\ nextId' = nextId + 1
                   /\ IF os = "ok"
                      THEN /\ pending' = pending \cup {id}
                           /\ outcome' = [outcome EXCEPT ![id] = "suspended"]
                           /\ anyWritten' = TRUE
                           /\ UNCHANGED <<sess, transport, inbound, resolutions,
                                          logged, drained>>
                      ELSE /\ Teardown(pending \cup {id})
                           /\ UNCHANGED <<anyWritten, logged>>
    /\ UNCHANGED <<cliPid, ownerPid, mainPc, exitCode, rsExpected,
                   peer, anyRead, routerVars, connVars, readVars, writeVars>>

\* The timeout of a pending request elapses.
Timeout(id) ==
    /\ mainPc = "serving"
    /\ sess = "established"
    /\ id \in pending
    /\ pending' = pending \ {id}
    /\ outcome' = [outcome EXCEPT ![id] = "timeout"]
    /\ resolutions' = [resolutions EXCEPT ![id] = @ + 1]
    /\ UNCHANGED <<hostVars, wireVars, nextId, routerVars, logged, drained,
                   connVars, readVars, writeVars>>

\* The owner shuts the Session down.
Shutdown ==
    /\ mainPc = "serving"
    /\ sess = "established"
    /\ Teardown(pending)
    /\ UNCHANGED <<cliPid, ownerPid, mainPc, exitCode, rsExpected, peer,
                   anyRead, anyWritten, nextId, routerVars, logged, drained, connVars, readVars, writeVars>>

\* subscribe() -> SubscriptionHandle
Subscribe ==
    /\ mainPc = "serving"
    /\ sess = "established"
    /\ nextHandle < MaxSubs
    /\ subs' = subs \cup {nextHandle}
    /\ subAt' = [subAt EXCEPT ![nextHandle] = Len(arrived)]
    /\ nextHandle' = nextHandle + 1
    /\ UNCHANGED <<hostVars, wireVars, corrVars, queue, delivered, drops, arrived,
                   logged, drained, connVars, readVars, writeVars>>

\* unsubscribe(handle): no further delivery to it; the handle's queue and
\* its records go with it.
Unsubscribe(h) ==
    /\ mainPc = "serving"
    /\ h \in subs
    /\ subs' = subs \ {h}
    /\ queue' = [queue EXCEPT ![h] = <<>>]
    /\ delivered' = [delivered EXCEPT ![h] = <<>>]
    /\ drops' = [drops EXCEPT ![h] = 0]
    /\ UNCHANGED <<hostVars, wireVars, corrVars, nextHandle, subAt,
                   arrived, logged, drained, connVars, readVars, writeVars>>

\* A subscriber takes the oldest event of its queue.
Take(h) ==
    /\ mainPc = "serving"
    /\ h \in subs
    /\ queue[h] # <<>>
    /\ delivered' = [delivered EXCEPT ![h] = Append(@, Head(queue[h]))]
    /\ queue' = [queue EXCEPT ![h] = Tail(@)]
    /\ UNCHANGED <<hostVars, wireVars, corrVars, subs, nextHandle, subAt, drops,
                   arrived, logged, drained, connVars, readVars, writeVars>>

(***************************************************************************)
(* Specifications                                                          *)
(***************************************************************************)
TransportIdle ==
    /\ connIn = NoCall
    /\ connOut = NoCall
    /\ rdInbound = <<>>
    /\ rdPeer = "open"
    /\ rdBuf = <<>>
    /\ rdLast = NoCall
    /\ wrReq = <<>>
    /\ wrWrites = 0
    /\ wrPeerGot = <<>>
    /\ wrRes = "idle"

WireIdle ==
    /\ inbound = <<>>
    /\ peer = "open"
    /\ anyRead = FALSE
    /\ anyWritten = FALSE

SessionIdle ==
    /\ nextId = 0
    /\ pending = {}
    /\ outcome = [i \in Ids |-> "unused"]
    /\ resolutions = [i \in Ids |-> 0]
    /\ logged = {}
    /\ drained = 0
    /\ subs = {}
    /\ nextHandle = 0
    /\ subAt = [h \in Handles |-> 0]
    /\ queue = [h \in Handles |-> <<>>]
    /\ delivered = [h \in Handles |-> <<>>]
    /\ drops = [h \in Handles |-> 0]
    /\ arrived = <<>>

NotStarted ==
    /\ mainPc = "start"
    /\ exitCode = Running
    /\ rsExpected = None
    /\ sess = "none"
    /\ transport = "none"

\* The transport operations on their own, in either build.
Init ==
    /\ platform \in {"unix", "windows"}
    /\ TransportIdle
    /\ cliPid = None
    /\ ownerPid = 1
    /\ NotStarted
    /\ WireIdle
    /\ SessionIdle

\* The process as it starts: a command line with or without
\* --expected-mpv-pid, and an endpoint owned by some process.
InitHost ==
    /\ platform = "unix"
    /\ TransportIdle
    /\ cliPid \in {None} \cup {Some(p) : p \in Pids}
    /\ ownerPid \in Pids
    /\ NotStarted
    /\ WireIdle
    /\ SessionIdle

\* A Session that has just been established without an expected pid.
InitEstablished ==
    /\ platform = "unix"
    /\ TransportIdle
    /\ cliPid = None
    /\ ownerPid = 1
    /\ mainPc = "serving"
    /\ exitCode = Running
    /\ rsExpected = None
    /\ sess = "established"
    /\ transport = "open"
    /\ WireIdle
    /\ SessionIdle

NextConnect == CallConnect
SpecConnect == Init /\ [][NextConnect]_vars

NextRead == RdPeerSend \/ RdPeerClose \/ RdPeerReset \/ CallReadLine
SpecRead == Init /\ [][NextRead]_vars

NextWrite == CallWriteAll \/ WrOsAccept \/ WrOsError
SpecWrite == Init /\ [][NextWrite]_vars

NextSession ==
    \/ MainStart
    \/ RunServerConnect
    \/ RunServerVerify
    \/ MainExit
    \/ PeerReply
    \/ PeerCloseReply
    \/ PeerReset
    \/ ReadLoop
    \/ Submit
    \/ \E id \in Ids : Timeout(id)
    \/ Shutdown
SpecSession == InitHost /\ [][NextSession]_vars

\* The Correlator of an established Session, until the process ends.
NextCorrelator ==
    \/ PeerReply
    \/ PeerCloseReply
    \/ PeerReset
    \/ ReadLoop
    \/ Submit
    \/ \E id \in Ids : Timeout(id)
    \/ Shutdown
    \/ MainExit
SpecCorrelator == InitEstablished /\ [][NextCorrelator]_vars

\* The timer of every pending request does fire.
LiveCorrelator == SpecCorrelator /\ \A id \in Ids : WF_vars(Timeout(id))

NextRouter ==
    \/ PeerEmit
    \/ PeerCloseEmit
    \/ ReadLoop
    \/ Subscribe
    \/ \E h \in Handles : Unsubscribe(h)
    \/ \E h \in Handles : Take(h)
SpecRouter == InitEstablished /\ [][NextRouter]_vars

(***************************************************************************)
(* Properties of the transport operations                                  *)
(***************************************************************************)

\* C5: every failure of connect carries the kind of the underlying OS error,
\* its message contains the endpoint path that was handed to the OS, and no
\* MpvStream is produced.
C5_ConnectErrorKeepsKindAndPath ==
    (connOut.called /\ ~connOut.ok) =>
        /\ connIn.os \in ErrorKinds
        /\ connOut.kind = connIn.os
        /\ Contains(connOut.message, connOut.attempted)
        /\ connOut.stream = "none"

\* C5 witness: a Windows connect whose path was normalised fails.
C5_Witness ==
    /\ connOut.called
    /\ ~connOut.ok
    /\ platform = "windows"
    /\ connOut.attempted # connIn.path
    /\ connOut.kind = "PermissionDenied"

\* path[i..j] is a piece of the path between separators, other than ".",
\* that only separators and "." pieces follow
IsFinalPiece(path, i, j) ==
    /\ \A k \in i .. j : ~IsSep(path[k])
    /\ i = 1 \/ IsSep(path[i - 1])
    /\ j = Len(path) \/ IsSep(path[j + 1])
    /\ SubSeq(path, i, j) # <<".">>
    /\ \A k \in (j + 1) .. Len(path) :
          \/ IsSep(path[k])
          \/ /\ path[k] = "."
             /\ IsSep(path[k - 1])
             /\ k = Len(path) \/ IsSep(path[k + 1])

\* C10: on Windows the pipe path that connect opens begins with \\.\pipe\ :
\* an input that starts with the prefix is opened unchanged (normalising
\* again changes nothing), and any other input is opened as the prefix
\* followed by its final path component, or by "mpv-socket" when its last
\* piece is ".." or it has none.
C10_PipePathNormalised ==
    (connOut.called /\ platform = "windows") =>
        LET path == connIn.path
            opened == connOut.attempted
            finals == {ij \in (1 .. Len(path)) \X (1 .. Len(path)) :
                          ij[1] <= ij[2] /\ IsFinalPiece(path, ij[1], ij[2])}
            usable == {ij \in finals : SubSeq(path, ij[1], ij[2]) # <<".", ".">>}
        IN  /\ StartsWith(opened, PipePrefix)
            /\ PipePath(opened) = opened
            /\ StartsWith(path, PipePrefix) => opened = path
            /\ ~StartsWith(path, PipePrefix) =>
                  /\ Cardinality(finals) <= 1
                  /\ \A ij \in usable : opened = PipePrefix \o SubSeq(path, ij[1], ij[2])
                  /\ usable = {} => opened = PipePrefix \o DefaultPipeName

\* C10 witness: a two-piece path without the prefix was opened as the prefix
\* followed by its final component.
C10_Witness ==
    /\ connOut.called
    /\ platform = "windows"
    /\ ~StartsWith(connIn.path, PipePrefix)
    /\ connIn.path = <<".", "/", "a">>
    /\ connOut.attempted = PipePrefix \o <<"a">>

\* C2 as stated: a successful read_line always ends in a complete
\* newline-terminated frame (a disconnect is never a success).
C2_SuccessOnlyOnCompleteLine ==
    (rdLast.called /\ rdLast.ok) => EndsWithNL(Appended)

\* C2 as amended: a read that hits end-of-stream succeeds (Ok(0) with
\* nothing appended, or Ok(n) with the n unterminated bytes appended), and a
\* successful read that does not end in a newline happens only there; the
\* only errors are a transport I/O error and invalid UTF-8.
C2_DisconnectIsOkUnterminated ==
    rdLast.called =>
        /\ (rdLast.ok /\ ~EndsWithNL(Appended)) => rdLast.ended = "eof"
        /\ (rdLast.ended = "eof" /\ rdLast.kind # "InvalidData") =>
              /\ rdLast.ok
              /\ rdLast.n = Len(Appended)
              /\ CountNL(Appended) = 0
        /\ ~rdLast.ok => rdLast.kind \in {"ConnectionReset", "InvalidData"}

\* C2 witness: the peer disconnected mid-line and read_line returned Ok(n>0).
C2_Witness ==
    /\ rdLast.called
    /\ rdLast.ok
    /\ rdLast.ended = "eof"
    /\ rdLast.n > 0
    /\ ~EndsWithNL(Appended)

\* C3 as stated: the text a successful read_line hands to the caller never
\* ends with the newline delimiter.
C3_FrameWithoutNewline ==
    (rdLast.called /\ rdLast.ok) => ~EndsWithNL(rdBuf)

\* C3 as amended: a successful read_line appends the bytes of one line with
\* its trailing newline: the appended text holds at most one newline, as its
\* last byte, and it ends with the newline unless the stream ended first.
C3_FrameKeepsNewline ==
    (rdLast.called /\ rdLast.ok) =>
        /\ rdLast.n = Len(Appended)
        /\ CountNL(Appended) <= 1
        /\ CountNL(Appended) = 1 => EndsWithNL(Appended)
        /\ rdLast.ended = "no" => EndsWithNL(Appended)

\* C3 witness: a complete line was read while a second one was waiting.
C3_Witness ==
    /\ rdLast.called
    /\ rdLast.ok
    /\ rdLast.ended = "no"
    /\ rdLast.n >= 2
    /\ EndsWithNL(rdBuf)
    /\ CountNL(rdInbound) >= 1

\* C4: write_all returns success only after every byte of the buffer has
\* reached the peer, however the OS split the writes; every other outcome is
\* a failure, reported with a strict prefix written.
C4_WriteAllOrError ==
    /\ wrRes = "ok" => wrPeerGot = wrReq
    /\ wrRes \in WriteErrors =>
          /\ Len(wrPeerGot) < Len(wrReq)
          /\ wrPeerGot = SubSeq(wrReq, 1, Len(wrPeerGot))

\* C4 witness: a buffer went out in several partial writes and the call
\* returned Ok.
C4_Witness ==
    /\ wrRes = "ok"
    /\ wrWrites >= 2
    /\ wrPeerGot = wrReq

(***************************************************************************)
(* Properties of the hosting process and its session                       *)
(***************************************************************************)

\* C1: a connect attempt with --expected-mpv-pid P against an endpoint owned
\* by Q # P ends in IdentityMismatch with the transport released, nothing
\* written to or read from it and no request ever issued; and nothing is
\* written or read while the transport is still unverified.
C1_MismatchRejectedBeforeAnyIo ==
    /\ (cliPid.some /\ cliPid.val # ownerPid
            /\ sess \notin {"none", "connecting", "unverified", "connect_failed"}) =>
          /\ sess = "identity_mismatch"
          /\ transport = "released"
          /\ ~anyRead
          /\ ~anyWritten
          /\ nextId = 0
          /\ pending = {}
    /\ sess \in {"unverified", "identity_mismatch"} => (~anyRead /\ ~anyWritten)

\* C1 witness: expected pid 1, endpoint owned by 2: rejected, and the process
\* has exited with a failure.
C1_Witness ==
    /\ cliPid = Some(1)
    /\ ownerPid = 2
    /\ sess = "identity_mismatch"
    /\ exitCode = 1

Got(h) == delivered[h] \o queue[h]

\* C8: what a subscriber receives is a subsequence, in arrival order, of the
\* events read from the transport since it subscribed; its queue holds the
\* newest arrivals (what a full queue dropped was its oldest event); and what
\* it misses is exactly its own recorded drops, whatever the others dropped.
C8_OrderedDropOldestPerSubscriber ==
    \A h \in subs :
        /\ \A i \in 1 .. Len(Got(h)) :
              /\ Got(h)[i].n \in (subAt[h] + 1) .. Len(arrived)
              /\ Got(h)[i].name = arrived[Got(h)[i].n]
        /\ \A i \in 1 .. (Len(Got(h)) - 1) : Got(h)[i].n < Got(h)[i + 1].n
        /\ Len(queue[h]) <= QueueCap
        /\ \A i \in 1 .. Len(queue[h]) :
              queue[h][i].n = Len(arrived) - Len(queue[h]) + i
        /\ Len(Got(h)) + drops[h] = Len(arrived) - subAt[h]
        /\ drops[h] > 0 => Len(arrived) - subAt[h] > QueueCap

\* C8 witness: one subscriber's full queue dropped an event while another
\* subscriber lost nothing of the same three events.
C8_Witness ==
    \E slow \in subs, quick \in subs :
        /\ drops[slow] > 0
        /\ Len(queue[slow]) = QueueCap
        /\ drops[quick] = 0
        /\ subAt[quick] = 0
        /\ Len(delivered[quick]) >= 3

\* C9 as stated: the process exits with a failure status only when the
\* Session could not be established (connect error or identity mismatch); an
\* established Session never ends in a failure exit.
C9_FailureExitOnlyOnEstablishment ==
    /\ exitCode > 0 => sess \in {"connect_failed", "identity_mismatch"}
    /\ sess \in {"established", "closed"} => exitCode <= 0

\* C9 as amended: the process exits with a failure status only when the
\* command line does not parse (status 2, before any connect) or the Session
\* could not be established (status 1, with no request ever issued); an
\* established Session never ends in a failure exit.
C9_FailureExitOnlyBeforeSession ==
    /\ exitCode > 0 =>
          \/ exitCode = 2 /\ sess = "none" /\ transport = "none"
          \/ /\ exitCode = 1
             /\ sess \in {"connect_failed", "identity_mismatch"}
             /\ nextId = 0
             /\ \A id \in Ids : outcome[id] = "unused"
    /\ sess \in {"established", "closed"} => exitCode <= 0
    /\ (mainPc = "exited" /\ sess \in {"connect_failed", "identity_mismatch"}) =>
          exitCode = 1

\* C9 witness: requests timed out and failed with a protocol error, a line
\* did not decode, and the process ended normally.
C9_Witness ==
    /\ exitCode = 0
    /\ \E id \in Ids : outcome[id] = "timeout"
    /\ \E id \in Ids : outcome[id] = "protocol_error"
    /\ "decode_error" \in logged
=============================================================================
